---- MODULE Spec2Model ----
(***************************************************************************)
(* The link store of linkcurt_backend and the request handlers that read   *)
(* and write it: linkControllerCreate (POST /api/v1/createLinks),          *)
(* linkControllerPutID (PUT /api/v1/links/:id), linkControllerDeleteID     *)
(* (DELETE /api/v1/links/:id) and userControllerDeleteID                   *)
(* (DELETE /api/v1/users/:id).                                             *)
(*                                                                         *)
(* Every handler is an async function: it runs from one `await` to the     *)
(* next without interruption, and other requests may run while it waits    *)
(* for the store.  One action of the model is one such piece: the storage  *)
(* operation the handler was waiting for, executed by the store, followed  *)
(* by the synchronous code up to the next await or the response.           *)
(***************************************************************************)
EXTENDS Integers, Sequences, FiniteSets, TLC

----------------------------------------------------------------------------
(* Bounds of the model.                                                    *)

\* Number of outcomes of the random source that are explored.
MaxDraws == 2
\* Number of requests the server accepts.
MaxRequests == 3

\* Request slots: requests that can be in flight at the same time.
Procs == {"r1", "r2"}

----------------------------------------------------------------------------
(* Values of the request bodies.                                           *)

\* JavaScript null and undefined as values of req.body.id_user; ids of
\* stored rows are positive (autoIncrement).
NULL == 0
UNDEFINED == 0 - 1

\* The users registered before the first link request.
SeedUsers == {1, 2}

\* bcrypt.hash(plain, 10) and bcrypt.compare(plain, hash): the hash is not
\* the plain text, and compare accepts exactly the plain text it came from.
bcryptHash(plain) ==
  CASE plain = "password1" -> "$2b$10$hash.of.password1"
    [] plain = "password2" -> "$2b$10$hash.of.password2"
    [] plain = "password3" -> "$2b$10$hash.of.password3"
    [] plain = "plaintext" -> "$2b$10$hash.of.plaintext"
    [] OTHER -> "$2b$10$hash.of.another.password"
bcryptCompare(plain, hash) == hash = bcryptHash(plain)

\* The columns of the rows of SeedUsers: one of each role.
SeedProfile ==
  (1 :> [email |-> "user@example.com", password |-> bcryptHash("password1"),
         name |-> "Anna", role |-> "user"]) @@
  (2 :> [email |-> "admin@example.com", password |-> bcryptHash("password2"),
         name |-> "Boss", role |-> "admin"])

\* The original_link values the requests carry.
WellFormedLinks == {"https://example.com/page", "https://example.org"}
MalformedLinks == {"", "not a url"}
BodyLinks == WellFormedLinks \cup MalformedLinks
BodyUsers == SeedUsers \cup {NULL, UNDEFINED}

\* !original_link || typeof original_link !== 'string' ||
\* !validator.isURL(original_link.trim())
isURL(s) == s \in WellFormedLinks
InvalidURL(s) == s = "" \/ ~isURL(s)

----------------------------------------------------------------------------
(* generateShortLink                                                       *)

\* const char = 'abcdefghijklmnopqrstuvwxyzABCDEFGHIJKLMNOPQRSTUWXYZ0123456789'
char ==
  << "a","b","c","d","e","f","g","h","i","j","k","l","m",
     "n","o","p","q","r","s","t","u","v","w","x","y","z",
     "A","B","C","D","E","F","G","H","I","J","K","L","M",
     "N","O","P","Q","R","S","T","U","W","X","Y","Z",
     "0","1","2","3","4","5","6","7","8","9" >>

\* The loop bound of generateShortLink: for (let i = 0; i < 4; i++)
ShortLen == 4

\* char.charAt(index), index counted from 0
charAt(s, index) == s[index + 1]

\* Math.floor(Math.random() * char.length): Math.random() is in [0, 1), so
\* the index is any of 0 .. char.length - 1.
RandomIndex == 0 .. (Len(char) - 1)

\* One call of generateShortLink draws ShortLen indices.  The model explores
\* MaxDraws of the possible draws; draw k spreads over the alphabet.
Draw(k) == [i \in 1..ShortLen |-> (k * (20 + i)) % Len(char)]
RandomDraws == {Draw(k) : k \in 0..(MaxDraws - 1)}

RECURSIVE generateLoop(_, _, _)
generateLoop(code, i, draw) ==
  IF i < ShortLen
    THEN generateLoop(Append(code, charAt(char, draw[i + 1])), i + 1, draw)
    ELSE code

\* A generator whose loop starts one step late.
generateShortLinkOffByOne(draw) == generateLoop(<<>>, 1, draw)

\* generateShortLink(), given what Math.random() returned in its ShortLen calls
generateShortLink(draw) == generateLoop(<<>>, 0, draw)

----------------------------------------------------------------------------
(* The store (the tables users and links) and the requests in flight.      *)

VARIABLES
  users,       \* id_user of the rows of table users
  links,       \* rows of table links
  nextId,      \* the autoIncrement counter of links.id_links
  pc,          \* per request slot: the await the handler is suspended at
  req,         \* per request slot: the request being handled
  short_link,  \* per request slot: the local short_link of linkControllerCreate
  found,       \* per request slot: id of the row a findOne returned
  cnt,         \* per request slot: calls made by the current request
  caught,      \* per request slot: message of the error the catch block got
  resp,        \* per request slot: the response sent
  alive,       \* the server process is running
  served,      \* number of requests accepted so far
  profile,     \* table users: email, password, name and role of each row
  visits,      \* table links_visited: the stored rows
  nextVisit,   \* next autoIncrement value of links_visited.id_links_visited
  nextUser,    \* next autoIncrement value of users.id_user
  guard,       \* per request slot: what protectRoute did with the request
  handler,     \* per request slot: the route handler that was invoked
  uncaught     \* per request slot: message of the error that left the handler

vars == << users, links, nextId, pc, req, short_link, found, cnt, caught,
           resp, alive, served, profile, visits, nextVisit, nextUser, guard,
           handler, uncaught >>

store == << users, links, nextId >>

\* What the link handlers behind their guard never touch.
accounts == << profile, visits, nextVisit, nextUser >>
routing == << guard, handler, uncaught >>

NoCode == <<>>
NoResponse == [status |-> 0, ok |-> FALSE, error |-> ""]
NoRequest == [kind |-> "none", original_link |-> "", id_user |-> NULL,
              id |-> NULL]
NoCalls == [gen |-> 0, uniq |-> 0, ins |-> 0, ops |-> 0]

\* res.status(status).send({ok: ..., error: ...})
Send(status, error) == [status |-> status, ok |-> status < 400, error |-> error]

Init ==
  /\ users = SeedUsers
  /\ links = {}
  /\ nextId = 1
  /\ pc = [p \in Procs |-> "idle"]
  /\ req = [p \in Procs |-> NoRequest]
  /\ short_link = [p \in Procs |-> NoCode]
  /\ found = [p \in Procs |-> NULL]
  /\ cnt = [p \in Procs |-> NoCalls]
  /\ caught = [p \in Procs |-> ""]
  /\ resp = [p \in Procs |-> NoResponse]
  /\ alive = TRUE
  /\ served = 0
  /\ profile = SeedProfile
  /\ visits = {}
  /\ nextVisit = 1
  /\ nextUser = 3
  /\ guard = [p \in Procs |-> "none"]
  /\ handler = [p \in Procs |-> ""]
  /\ uncaught = [p \in Procs |-> ""]

\* A slot takes a new request when it has none or has answered the last one
\* (the model stops accepting after MaxRequests requests).
Free(p) == alive /\ pc[p] \in {"idle", "done", "failed"} /\ served < MaxRequests

\* The request enters its handler: the locals of the handler are fresh.
Accept(p, r) ==
  /\ req' = [req EXCEPT ![p] = r]
  /\ short_link' = [short_link EXCEPT ![p] = NoCode]
  /\ found' = [found EXCEPT ![p] = NULL]
  /\ cnt' = [cnt EXCEPT ![p] = NoCalls]
  /\ served' = served + 1

\* The handler suspends at an await, with no response sent yet.
Await(p, at) ==
  /\ pc' = [pc EXCEPT ![p] = at]
  /\ resp' = [resp EXCEPT ![p] = NoResponse]

\* The handler sends its response and returns.
Reply(p, r) ==
  /\ resp' = [resp EXCEPT ![p] = r]
  /\ pc' = [pc EXCEPT ![p] = "done"]

----------------------------------------------------------------------------
(* The storage layer: Sequelize over the tables declared by the models.    *)

\* A duplicate query that compares the wrong column.
FindLinkOfUserWrongColumn(o, u) ==
  {l \in links : l.original_link = o /\ l.id_links = u}

\* LinksModel.findOne({where: {original_link, id_user}})
FindLinkOfUser(o, u) == {l \in links : l.original_link = o /\ l.id_user = u}

\* The letters of the two cases, paired by position.
Lowers == << "a", "b", "c", "d", "e", "f", "g", "h", "i", "j", "k", "l", "m",
             "n", "o", "p", "q", "r", "s", "t", "u", "v", "w", "x", "y", "z" >>
Uppers == << "A", "B", "C", "D", "E", "F", "G", "H", "I", "J", "K", "L", "M",
             "N", "O", "P", "Q", "R", "S", "T", "U", "V", "W", "X", "Y", "Z" >>
toLower(c) ==
  IF \E i \in 1..Len(Uppers) : Uppers[i] = c
    THEN Lowers[CHOOSE i \in 1..Len(Uppers) : Uppers[i] = c]
    ELSE c
Fold(s) == [i \in 1..Len(s) |-> toLower(s[i])]

\* A short_link query that compares without regard to case.
FindShortLinkIgnoreCase(s) == {l \in links : Fold(l.short_link) = Fold(s)}

\* LinksModel.findOne({where: {short_link}})
FindShortLink(s) == {l \in links : l.short_link = s}

\* LinksModel.findOne({where: {id_links}})
FindLinkById(id) == {l \in links : l.id_links = id}

\* Table links without the unique index on short_link.
InsertViolationsNoIndex(row) ==
  IF row.id_user \notin users
    THEN {"Cannot add or update a child row: a foreign key constraint fails"}
    ELSE {}

\* Table links with one more unique index, on (original_link, id_user).
InsertViolationsPairIndex(row) ==
  (IF \E l \in links : l.short_link = row.short_link
        \/ (l.original_link = row.original_link /\ l.id_user = row.id_user)
     THEN {"Validation error"} ELSE {})
  \cup
  (IF row.id_user \notin users
     THEN {"Cannot add or update a child row: a foreign key constraint fails"}
     ELSE {})

\* The constraints of table links an INSERT of the row violates:
\* the unique index idx_short_link and the foreign key id_user -> users.
InsertViolations(row) ==
  (IF \E l \in links : l.short_link = row.short_link
     THEN {"Validation error"} ELSE {})
  \cup
  (IF row.id_user \notin users
     THEN {"Cannot add or update a child row: a foreign key constraint fails"}
     ELSE {})

\* Sequelize refuses a where clause with an undefined value before it
\* sends any query.
UndefinedWhere == "WHERE parameter \"id_user\" has invalid \"undefined\" value"

----------------------------------------------------------------------------
(* linkControllerCreate: POST /api/v1/createLinks                          *)

CreateRequest(o, u) ==
  [kind |-> "create", original_link |-> o, id_user |-> u, id |-> NULL]

\* A handler without the catch block: the rejection is unhandled and ends
\* the process.
createCatchMissing(p, error) ==
  /\ caught' = [caught EXCEPT ![p] = error]
  /\ pc' = [pc EXCEPT ![p] = "done"]
  /\ UNCHANGED resp
  /\ alive' = FALSE

\* A catch block that answers with error.message, as the other handlers do.
createCatchRaw(p, error) ==
  /\ caught' = [caught EXCEPT ![p] = error]
  /\ Reply(p, Send(500, error))
  /\ UNCHANGED alive

\* catch (error) { console.error(error); res.status(500).send(...) }
createCatch(p, error) ==
  /\ caught' = [caught EXCEPT ![p] = error]
  /\ Reply(p, Send(500, "Internal server error"))
  /\ UNCHANGED alive

\* Entry of the handler up to the first await: the URL check, then the call
\* LinksModel.findOne({where: {original_link, id_user}}), which throws into
\* the catch block when id_user is undefined.
linkControllerCreate(p, o, u) ==
  /\ Free(p)
  /\ Accept(p, CreateRequest(o, u))
  /\ IF InvalidURL(o)
       THEN /\ Reply(p, Send(400, "Invalid URL"))
            /\ caught' = [caught EXCEPT ![p] = ""]
            /\ UNCHANGED alive
       ELSE IF u = UNDEFINED
         THEN createCatch(p, UndefinedWhere)
         ELSE /\ Await(p, "existsLink")
              /\ caught' = [caught EXCEPT ![p] = ""]
              /\ UNCHANGED alive
  /\ UNCHANGED store
  /\ UNCHANGED << accounts, routing >>

\* The duplicate query answers; the handler goes on to generate the first
\* candidate and to ask for it.
createExistsLink(p) ==
  /\ pc[p] = "existsLink"
  /\ cnt' = [cnt EXCEPT ![p].ops = @ + 1,
                        ![p].gen = IF FindLinkOfUser(req[p].original_link, req[p].id_user) = {}
                                      /\ req[p].id_user # NULL
                                     THEN @ + 1 ELSE @]
  /\ IF FindLinkOfUser(req[p].original_link, req[p].id_user) # {}
       THEN /\ Reply(p, Send(400, "Link already exists for this user"))
            /\ UNCHANGED short_link
       ELSE IF req[p].id_user = UNDEFINED \/ req[p].id_user = NULL
         THEN /\ Reply(p, Send(400, "User ID is required"))
              /\ UNCHANGED short_link
         ELSE /\ \E draw \in RandomDraws :
                   short_link' = [short_link EXCEPT ![p] = generateShortLink(draw)]
              /\ pc' = [pc EXCEPT ![p] = "existsShortLink"]
              /\ UNCHANGED resp
  /\ UNCHANGED << store, req, found, caught, alive, served >>
  /\ UNCHANGED << accounts, routing >>

\* A handler that asks again for every replacement it generates.
createExistsShortLinkRetry(p) ==
  /\ pc[p] = "existsShortLink"
  /\ IF FindShortLink(short_link[p]) # {}
       THEN /\ \E draw \in RandomDraws :
                 short_link' = [short_link EXCEPT ![p] = generateShortLink(draw)]
            /\ cnt' = [cnt EXCEPT ![p].ops = @ + 1, ![p].uniq = @ + 1,
                                  ![p].gen = @ + 1]
            /\ UNCHANGED pc
       ELSE /\ UNCHANGED short_link
            /\ cnt' = [cnt EXCEPT ![p].ops = @ + 1, ![p].uniq = @ + 1]
            /\ pc' = [pc EXCEPT ![p] = "create"]
  /\ UNCHANGED << store, req, found, caught, resp, alive, served >>
  /\ UNCHANGED << accounts, routing >>

\* The uniqueness query answers; on a collision the handler generates one
\* replacement, and in both cases it goes on to insert.
createExistsShortLink(p) ==
  /\ pc[p] = "existsShortLink"
  /\ IF FindShortLink(short_link[p]) # {}
       THEN /\ \E draw \in RandomDraws :
                 short_link' = [short_link EXCEPT ![p] = generateShortLink(draw)]
            /\ cnt' = [cnt EXCEPT ![p].ops = @ + 1, ![p].uniq = @ + 1,
                                  ![p].gen = @ + 1]
       ELSE /\ UNCHANGED short_link
            /\ cnt' = [cnt EXCEPT ![p].ops = @ + 1, ![p].uniq = @ + 1]
  /\ pc' = [pc EXCEPT ![p] = "create"]
  /\ UNCHANGED << store, req, found, caught, resp, alive, served >>
  /\ UNCHANGED << accounts, routing >>

\* The row LinksModel.create({original_link, short_link, id_user}) inserts.
NewLink(p) ==
  [id_links |-> nextId, original_link |-> req[p].original_link,
   short_link |-> short_link[p], id_user |-> req[p].id_user]

\* The insert is executed: the row is stored and answered with 201, or a
\* constraint rejects it and the catch block answers 500.
createInsert(p) ==
  /\ pc[p] = "create"
  /\ cnt' = [cnt EXCEPT ![p].ops = @ + 1, ![p].ins = @ + 1]
  /\ IF InsertViolations(NewLink(p)) = {}
       THEN /\ links' = links \cup {NewLink(p)}
            /\ nextId' = nextId + 1
            /\ Reply(p, Send(201, ""))
            /\ UNCHANGED << caught, alive >>
       ELSE /\ \E e \in InsertViolations(NewLink(p)) : createCatch(p, e)
            /\ UNCHANGED << links, nextId >>
  /\ UNCHANGED << users, req, short_link, found, served >>
  /\ UNCHANGED << accounts, routing >>

----------------------------------------------------------------------------
(* linkControllerPutID: PUT /api/v1/links/:id                              *)

\* param is req.params.id; id and o are id_links and original_link of the
\* body.
PutRequest(param, id, o) ==
  [kind |-> "put", original_link |-> o, id_user |-> NULL, id |-> id,
   param |-> param]

\* Entry: the URL check, then LinksModel.findOne({where: {id_links}}) with
\* the id_links of the body.
linkControllerPutID(p, param, id, o) ==
  /\ Free(p)
  /\ Accept(p, PutRequest(param, id, o))
  /\ caught' = [caught EXCEPT ![p] = ""]
  /\ IF InvalidURL(o)
       THEN Reply(p, Send(400, "Invalid URL"))
       ELSE Await(p, "putFind")
  /\ UNCHANGED << store, alive >>
  /\ UNCHANGED << accounts, routing >>

\* Sequelize's error for where: {id_links: undefined}
UndefinedLinkWhere == "WHERE parameter \"id_links\" has invalid \"undefined\" value"

\* The findOne answers: the row, or 404; with no id_links in the body the
\* query throws, which is the 500 of the catch block.
putFind(p) ==
  /\ pc[p] = "putFind"
  /\ cnt' = [cnt EXCEPT ![p].ops = @ + 1]
  /\ IF req[p].id = UNDEFINED
       THEN /\ caught' = [caught EXCEPT ![p] = UndefinedLinkWhere]
            /\ Reply(p, Send(500, UndefinedLinkWhere))
            /\ UNCHANGED found
       ELSE /\ UNCHANGED caught
            /\ IF FindLinkById(req[p].id) # {}
                 THEN /\ found' = [found EXCEPT ![p] = req[p].id]
                      /\ pc' = [pc EXCEPT ![p] = "putUpdate"]
                      /\ UNCHANGED resp
                 ELSE /\ Reply(p, Send(404, "Link not found with this id:"))
                      /\ UNCHANGED found
  /\ UNCHANGED << store, req, short_link, alive, served >>
  /\ UNCHANGED << accounts, routing >>

\* An update that also hands the Link to the first user.
UpdatedLinkAndOwner(l, o) == [l EXCEPT !.original_link = o, !.id_user = 1]

\* The row after update({original_link: original_link})
UpdatedLink(l, o) == [l EXCEPT !.original_link = o]

\* link.update({original_link}): UPDATE links SET original_link = ...
\* WHERE id_links = <the row's id>; a row deleted meanwhile is not updated.
putUpdate(p) ==
  /\ pc[p] = "putUpdate"
  /\ cnt' = [cnt EXCEPT ![p].ops = @ + 1]
  /\ links' = {IF l.id_links = found[p]
                 THEN UpdatedLink(l, req[p].original_link)
                 ELSE l : l \in links}
  /\ Reply(p, Send(200, ""))
  /\ UNCHANGED << users, nextId, req, short_link, found, caught, alive, served >>
  /\ UNCHANGED << accounts, routing >>

----------------------------------------------------------------------------
(* linkControllerDeleteID: DELETE /api/v1/links/:id                        *)

DeleteLinkRequest(id) ==
  [kind |-> "deleteLink", original_link |-> "", id_user |-> NULL, id |-> id]

\* Entry: the id is a number; then LinksModel.findOne({where: {id_links}}).
linkControllerDeleteID(p, id) ==
  /\ Free(p)
  /\ Accept(p, DeleteLinkRequest(id))
  /\ caught' = [caught EXCEPT ![p] = ""]
  /\ Await(p, "deleteFind")
  /\ UNCHANGED << store, alive >>
  /\ UNCHANGED << accounts, routing >>

deleteFind(p) ==
  /\ pc[p] = "deleteFind"
  /\ cnt' = [cnt EXCEPT ![p].ops = @ + 1]
  /\ IF FindLinkById(req[p].id) # {}
       THEN /\ found' = [found EXCEPT ![p] = req[p].id]
            /\ pc' = [pc EXCEPT ![p] = "deleteDestroy"]
            /\ UNCHANGED resp
       ELSE /\ Reply(p, Send(404, "Link not found with id "))
            /\ UNCHANGED found
  /\ UNCHANGED << store, req, short_link, caught, alive, served >>
  /\ UNCHANGED << accounts, routing >>

\* Table links_visited without ON DELETE CASCADE on id_links.
VisitsWithoutLinkNoCascade(id) == visits

\* links_visited.id_links is declared onDelete: "CASCADE": the visits of a
\* deleted Link go with it.
VisitsWithoutLink(id) == {v \in visits : v.id_links # id}

\* link.destroy(): DELETE FROM links WHERE id_links = <the row's id>
deleteDestroy(p) ==
  /\ pc[p] = "deleteDestroy"
  /\ cnt' = [cnt EXCEPT ![p].ops = @ + 1]
  /\ links' = {l \in links : l.id_links # found[p]}
  /\ Reply(p, Send(200, ""))
  /\ UNCHANGED << users, nextId, req, short_link, found, caught, alive, served >>
  /\ visits' = VisitsWithoutLink(found[p])
  /\ UNCHANGED << profile, nextVisit, nextUser, routing >>

----------------------------------------------------------------------------
(* userControllerDeleteID: DELETE /api/v1/users/:id                        *)

DeleteUserRequest(id) ==
  [kind |-> "deleteUser", original_link |-> "", id_user |-> NULL, id |-> id]

\* Entry: the id is a number; then UsersModel.findOne({where: {id_user}}).
userControllerDeleteID(p, id) ==
  /\ Free(p)
  /\ Accept(p, DeleteUserRequest(id))
  /\ caught' = [caught EXCEPT ![p] = ""]
  /\ Await(p, "userFind")
  /\ UNCHANGED << store, alive >>
  /\ UNCHANGED << accounts, routing >>

userFind(p) ==
  /\ pc[p] = "userFind"
  /\ cnt' = [cnt EXCEPT ![p].ops = @ + 1]
  /\ IF req[p].id \in users
       THEN /\ found' = [found EXCEPT ![p] = req[p].id]
            /\ pc' = [pc EXCEPT ![p] = "userDestroy"]
            /\ UNCHANGED resp
       ELSE /\ Reply(p, Send(404, "User not found with id "))
            /\ UNCHANGED found
  /\ UNCHANGED << store, req, short_link, caught, alive, served >>
  /\ UNCHANGED << accounts, routing >>

\* links.id_user and links_visited.id_user are declared onDelete:
\* "CASCADE": the Links of a deleted User go with it, and so do the visits
\* by the User and the visits of those Links.
LinksWithoutUser(u) == {l \in links : l.id_user # u}
VisitsWithoutUser(u) ==
  {v \in visits : /\ v.id_user # u
                  /\ \A l \in links : l.id_links = v.id_links => l.id_user # u}

\* user.destroy(): DELETE FROM users WHERE id_user = <the row's id>; the
\* foreign key links.id_user is declared onDelete: "CASCADE".
userDestroy(p) ==
  /\ pc[p] = "userDestroy"
  /\ cnt' = [cnt EXCEPT ![p].ops = @ + 1]
  /\ users' = users \ {found[p]}
  /\ links' = LinksWithoutUser(found[p])
  /\ Reply(p, Send(200, ""))
  /\ UNCHANGED << nextId, req, short_link, found, caught, alive, served >>
  /\ profile' = [u \in users \ {found[p]} |-> profile[u]]
  /\ visits' = VisitsWithoutUser(found[p])
  /\ UNCHANGED << nextVisit, nextUser, routing >>

----------------------------------------------------------------------------
(* The server: any free slot takes any request, any suspended handler      *)
(* resumes.                                                                *)

\* The id_links the requests name: those of the Links that can exist when
\* a request is accepted.
LinkIds == 1..(MaxRequests - 1)

Next ==
  \/ \E p \in Procs, o \in BodyLinks, u \in BodyUsers : linkControllerCreate(p, o, u)
  \/ \E p \in Procs : createExistsLink(p)
  \/ \E p \in Procs : createExistsShortLink(p)
  \/ \E p \in Procs : createInsert(p)
  \/ \E p \in Procs, id \in LinkIds, o \in BodyLinks : linkControllerPutID(p, id, id, o)
  \/ \E p \in Procs : putFind(p)
  \/ \E p \in Procs : putUpdate(p)
  \/ \E p \in Procs, id \in LinkIds : linkControllerDeleteID(p, id)
  \/ \E p \in Procs : deleteFind(p)
  \/ \E p \in Procs : deleteDestroy(p)
  \/ \E p \in Procs, id \in SeedUsers : userControllerDeleteID(p, id)
  \/ \E p \in Procs : userFind(p)
  \/ \E p \in Procs : userDestroy(p)

Spec == Init /\ [][Next]_vars

----------------------------------------------------------------------------
(* Properties of the link store and of linkControllerCreate.               *)

\* The 62 symbols a-z, A-Z, 0-9.
Alphabet62 ==
  { "a","b","c","d","e","f","g","h","i","j","k","l","m",
    "n","o","p","q","r","s","t","u","v","w","x","y","z",
    "A","B","C","D","E","F","G","H","I","J","K","L","M",
    "N","O","P","Q","R","S","T","U","V","W","X","Y","Z",
    "0","1","2","3","4","5","6","7","8","9" }

\* Slot p has answered a POST /createLinks request.
CreateDone(p) == pc[p] = "done" /\ req[p].kind = "create"

\* Slot p takes the step that executes its insert.
InsertStep(p) == pc[p] = "create" /\ pc'[p] = "done"

\* A stored Link has the (original_link, id_user) of p's request.
HasLinkOfUser(p) ==
  \E l \in links : /\ l.original_link = req[p].original_link
                   /\ l.id_user = req[p].id_user

\* C1: in every reachable state of the store no two persisted Links have the
\* same short_link.
C1_UniqueShortLink ==
  \A l1 \in links, l2 \in links :
    l1.short_link = l2.short_link => l1 = l2

\* C1: two Links are stored and the unique index has rejected an insert.
C1_Witness ==
  /\ Cardinality(links) >= 2
  /\ \E p \in Procs : CreateDone(p) /\ caught[p] = "Validation error"

\* C2: an allocation that succeeds with 201 stores a Link with its
\* (original_link, id_user), and an allocation whose duplicate query runs
\* while such a Link is stored is answered 400 "Link already exists for this
\* user" and adds no Link.
C2_SecondIsConflict ==
  [][\A p \in Procs :
       /\ (InsertStep(p) /\ resp'[p].status = 201)
            => \E l \in links' : /\ l.original_link = req[p].original_link
                                 /\ l.id_user = req[p].id_user
       /\ (pc[p] = "existsLink" /\ pc'[p] # "existsLink" /\ HasLinkOfUser(p))
            => /\ resp'[p] = Send(400, "Link already exists for this user")
               /\ pc'[p] = "done"
               /\ links' = links]_vars

\* C2: one slot was answered 201 and the other, with the same request, 400
\* "Link already exists for this user".
C2_Witness ==
  \E p \in Procs, q \in Procs :
    /\ CreateDone(p) /\ resp[p].status = 201
    /\ CreateDone(q) /\ req[q] = req[p]
    /\ resp[q] = Send(400, "Link already exists for this user")
    /\ Cardinality(links) = 1

\* C3: an allocation for an existing user, of an original_link that a Link of
\* another user already has, succeeds with 201 and its short_link differs
\* from every stored one.
C3_BothSucceed ==
  [][\A p \in Procs :
       (/\ InsertStep(p)
        /\ req[p].id_user \in users
        /\ \E l \in links : /\ l.original_link = req[p].original_link
                            /\ l.id_user # req[p].id_user)
         => /\ resp'[p].status = 201
            /\ \A l \in links : l.short_link # short_link[p]]_vars

\* C4: every persisted Link has a short_link of exactly 4 characters, each
\* of them in [a-zA-Z0-9].
C4_ShortLinkShape ==
  \A l \in links :
    /\ Len(l.short_link) = 4
    /\ \A i \in 1..Len(l.short_link) : l.short_link[i] \in Alphabet62

\* C4: one allocation persisted its first candidate and another one its
\* replacement.
C4_Witness ==
  \E p \in Procs, q \in Procs :
    /\ CreateDone(p) /\ resp[p].status = 201 /\ cnt[p].gen = 1
    /\ CreateDone(q) /\ resp[q].status = 201 /\ cnt[q].gen = 2
    /\ Cardinality(links) = 2

\* C5: wherever generateShortLink has been called, the symbols it can put at
\* a position are exactly the 62 symbols a-z, A-Z, 0-9.
C5_FullAlphabet ==
  \A p \in Procs :
    cnt[p].gen > 0
      => /\ {charAt(char, k) : k \in RandomIndex} = Alphabet62
         /\ Len(char) = 62

\* C6: an allocation request with a well-formed original_link and an absent
\* id_user is answered 400 "User ID is required" without any storage
\* operation.
C6_UserIdCheckedFirst ==
  \A p \in Procs :
    (/\ CreateDone(p)
     /\ ~InvalidURL(req[p].original_link)
     /\ req[p].id_user \in {NULL, UNDEFINED})
      => /\ resp[p] = Send(400, "User ID is required")
         /\ cnt[p].ops = 0

C8_CollisionIs500 ==
  [][\A p \in Procs :
       (InsertStep(p) /\ \E l \in links : l.short_link = short_link[p])
         => /\ resp'[p].status = 500
            /\ resp'[p].ok = FALSE
            /\ links' = links
            /\ alive']_vars

\* C8: the replacement candidate collided too and the request was answered 500.
C8_Witness ==
  \E p \in Procs :
    /\ CreateDone(p) /\ resp[p].status = 500
    /\ caught[p] = "Validation error" /\ cnt[p].gen = 2
    /\ alive

\* C8, second case: a concurrent allocation inserted the same code between
\* the check and the insert.
C8_WitnessRace ==
  \E p \in Procs, q \in Procs :
    /\ CreateDone(p) /\ resp[p].status = 500
    /\ caught[p] = "Validation error" /\ cnt[p].gen = 1
    /\ CreateDone(q) /\ resp[q].status = 201 /\ short_link[q] = short_link[p]

\* C9 as stated: the 500 response for a unique-constraint violation carries
\* the raw database error message as its error field.
C9_RawMessage ==
  \A p \in Procs :
    (CreateDone(p) /\ resp[p].status = 500 /\ caught[p] = "Validation error")
      => resp[p].error = caught[p]

\* C9: every 500 response of an allocation carries the fixed message
\* "Internal server error" as its error field, not the message of the error
\* that was caught.
C9_GenericMessage ==
  \A p \in Procs :
    (CreateDone(p) /\ resp[p].status = 500)
      => /\ resp[p].error = "Internal server error"
         /\ caught[p] # ""
         /\ resp[p].error # caught[p]

\* C9: an allocation was answered 500 for a unique-constraint violation.
C9_Witness ==
  \E p \in Procs :
    /\ CreateDone(p) /\ resp[p].status = 500
    /\ caught[p] = "Validation error"

\* C10: an insert with a fresh short_link for an existing user succeeds with
\* 201 and adds a Link also when a Link with the same (original_link,
\* id_user) is already stored.
C10_InsertIgnoresDuplicate ==
  [][\A p \in Procs :
       (/\ InsertStep(p)
        /\ HasLinkOfUser(p)
        /\ req[p].id_user \in users
        /\ \A l \in links : l.short_link # short_link[p])
         => /\ resp'[p].status = 201
            /\ Cardinality(links') = Cardinality(links) + 1
            /\ Cardinality({l \in links' : /\ l.original_link = req[p].original_link
                                           /\ l.id_user = req[p].id_user}) >= 2]_vars

\* C10: two allocations with the same request were both answered 201 and
\* two stored Links share (original_link, id_user).
C10_Witness ==
  \E p \in Procs, q \in Procs :
    /\ p # q
    /\ CreateDone(p) /\ resp[p].status = 201
    /\ CreateDone(q) /\ resp[q].status = 201
    /\ req[p] = req[q]
    /\ \E l1 \in links, l2 \in links :
         /\ l1 # l2
         /\ l1.original_link = l2.original_link
         /\ l1.id_user = l2.id_user


----------------------------------------------------------------------------
(* GET /api/v1/links/original/:shortLink: linksControllerOriginalLinkGet.  *)

\* The two spellings matched by /^https?:\/\/linkcurter\.com\//.
HttpPrefix == << "h", "t", "t", "p", ":", "/", "/", "l", "i", "n", "k", "c",
                 "u", "r", "t", "e", "r", ".", "c", "o", "m", "/" >>
HttpsPrefix == << "h", "t", "t", "p", "s" >> \o SubSeq(HttpPrefix, 5, Len(HttpPrefix))

StartsWith(s, pre) == Len(s) >= Len(pre) /\ SubSeq(s, 1, Len(pre)) = pre
DropPrefix(s, pre) == SubSeq(s, Len(pre) + 1, Len(s))

\* The replace with a pattern that lost its "?": only https is removed.
replacePrefixHttpsOnly(s) ==
  IF StartsWith(s, HttpsPrefix) THEN DropPrefix(s, HttpsPrefix) ELSE s

\* req.params.shortLink.replace(/^https?:\/\/linkcurter\.com\//, ''): the
\* pattern is anchored at the start and replace() removes one match.
replacePrefix(s) ==
  IF StartsWith(s, HttpsPrefix) THEN DropPrefix(s, HttpsPrefix)
  ELSE IF StartsWith(s, HttpPrefix) THEN DropPrefix(s, HttpPrefix)
  ELSE s

\* The codes the lookups name: those the generator can have stored, one of
\* them in the other case, and a code no Link has.
StoredCodes == {generateShortLink(d) : d \in RandomDraws}
UpperCase(s) ==
  [i \in 1..Len(s) |->
     IF \E k \in 1..Len(Lowers) : Lowers[k] = s[i]
       THEN Uppers[CHOOSE k \in 1..Len(Lowers) : Lowers[k] = s[i]]
       ELSE s[i]]
LookupCodes ==
  StoredCodes \cup {UpperCase(c) : c \in StoredCodes} \cup {<< "z", "z", "z" >>}

\* The three spellings of a code that the endpoint accepts.
Forms(c) == {c, HttpsPrefix \o c, HttpPrefix \o c}

\* A URL of another domain: nothing is removed from it.
OtherDomain ==
  << "h", "t", "t", "p", "s", ":", "/", "/", "e", "x", ".", "c", "o", "m", "/" >>
LookupParams ==
  UNION {Forms(c) : c \in LookupCodes} \cup {OtherDomain \o c : c \in StoredCodes}

LookupRequest(param) == [kind |-> "lookup", shortLink |-> param]

\* const shortLink = req.params.shortLink.replace(...);
\* await LinksModel.findOne({where: {short_link: shortLink}})
linksControllerOriginalLinkGet(p, param) ==
  /\ Free(p)
  /\ req' = [req EXCEPT ![p] = LookupRequest(param)]
  /\ short_link' = [short_link EXCEPT ![p] = replacePrefix(param)]
  /\ found' = [found EXCEPT ![p] = NULL]
  /\ cnt' = [cnt EXCEPT ![p] = NoCalls]
  /\ served' = served + 1
  /\ Await(p, "originalFind")
  /\ UNCHANGED << store, caught, alive >>
  /\ UNCHANGED << accounts, routing >>

\* if (!links) 404 'Short link not found';
\* else 200 {ok: true, original_link: links.original_link}
originalFind(p) ==
  /\ pc[p] = "originalFind"
  /\ cnt' = [cnt EXCEPT ![p].ops = @ + 1]
  /\ IF FindShortLink(short_link[p]) = {}
       THEN /\ Reply(p, Send(404, "Short link not found"))
            /\ UNCHANGED found
       ELSE \E l \in FindShortLink(short_link[p]) :
              /\ found' = [found EXCEPT ![p] = l.id_links]
              /\ Reply(p, [status |-> 200, ok |-> TRUE,
                           original_link |-> l.original_link])
  /\ UNCHANGED << store, req, short_link, caught, alive, served >>
  /\ UNCHANGED << accounts, routing >>

\* The stores the lookups run against: for any set of generated codes, a
\* table whose rows were inserted in the order of the draws.
StoredRow(k, o, u) ==
  [id_links |-> k + 1, original_link |-> o,
   short_link |-> generateShortLink(Draw(k)), id_user |-> u]
LookupStores ==
  {{StoredRow(k, f[k], 1) : k \in K} :
     <<K, f>> \in UNION {{<<J, g>> : g \in [J -> WellFormedLinks]} :
                            J \in SUBSET (0..(MaxDraws - 1))}}

InitLookup ==
  /\ users = SeedUsers
  /\ links \in LookupStores
  /\ nextId = MaxDraws + 1
  /\ pc = [p \in Procs |-> "idle"]
  /\ req = [p \in Procs |-> NoRequest]
  /\ short_link = [p \in Procs |-> NoCode]
  /\ found = [p \in Procs |-> NULL]
  /\ cnt = [p \in Procs |-> NoCalls]
  /\ caught = [p \in Procs |-> ""]
  /\ resp = [p \in Procs |-> NoResponse]
  /\ alive = TRUE
  /\ served = 0
  /\ profile = SeedProfile
  /\ visits = {}
  /\ nextVisit = 1
  /\ nextUser = 3
  /\ guard = [p \in Procs |-> "none"]
  /\ handler = [p \in Procs |-> ""]
  /\ uncaught = [p \in Procs |-> ""]

NextLookup ==
  \/ \E p \in Procs, param \in LookupParams : linksControllerOriginalLinkGet(p, param)
  \/ \E p \in Procs : originalFind(p)

SpecLookup == InitLookup /\ [][NextLookup]_vars

LookupDone(p) == pc[p] = "done" /\ req[p].kind = "lookup"

\* C11: in one store state, the lookups of a code c, of
\* "https://linkcurter.com/" + c and of "http://linkcurter.com/" + c get the
\* same response: 200 with the same original_link, or 404 for each.
C11_SameOutcome ==
  \A p \in Procs, q \in Procs, c \in LookupCodes :
    (/\ LookupDone(p) /\ LookupDone(q)
     /\ req[p].shortLink \in Forms(c) /\ req[q].shortLink \in Forms(c))
      => /\ resp[p] = resp[q]
         /\ resp[p].status \in {200, 404}

C11_Witness ==
  \E p \in Procs, q \in Procs, c \in StoredCodes :
    /\ LookupDone(p) /\ LookupDone(q)
    /\ req[p].shortLink = HttpPrefix \o c
    /\ req[q].shortLink = HttpsPrefix \o c
    /\ resp[p].status = 200 /\ resp[q].status = 200


\* The parameters that carry no removable prefix.
BareParams == LookupCodes \cup {OtherDomain \o c : c \in StoredCodes}

----------------------------------------------------------------------------
(* The router of index.js and the access guard protectRoute.               *)

\* A route registered without protectRoute.
Unguarded == "unguarded"

\* The path parameters of the route patterns: such a segment matches any
\* segment of the request path.
PathParams == {":id", ":attribute", ":data", ":shortLink", ":initialDate",
               ":finalDate", ":id_user", ":password"}

Api(rest) == << "api", "v1" >> \o rest
Route(method, path, role, h) ==
  [method |-> method, path |-> Api(path), role |-> role, handler |-> h]

\* The routes in the order app.use() mounts their routers and the routers
\* register them.
Routes == <<
  Route("POST", << "login" >>, Unguarded, "authControllerLogin"),
  Route("DELETE", << "users", ":id" >>, "user", "userControllerDeleteID"),
  Route("DELETE", << "users", ":attribute", ":data" >>, "user", "userControllerDeleteParam"),
  Route("GET", << "users" >>, "admin", "userControllerGet"),
  Route("GET", << "users", "all" >>, "admin", "userControllerGetAll"),
  Route("GET", << "users", ":id" >>, "user", "userControllerGetID"),
  Route("GET", << "users", "all", ":id" >>, "user", "userControllerGetIDAll"),
  Route("GET", << "users", ":attribute", ":data" >>, "user", "userControllerGetParam"),
  Route("GET", << "users", "all", ":attribute", ":data" >>, "user", "userControllerGetParamAll"),
  Route("GET", << "count", "all", "users" >>, "admin", "userControllerGetCountAll"),
  Route("POST", << "register" >>, Unguarded, "userControllerCreate"),
  Route("PUT", << "users", ":id" >>, "user", "userControllerPutID"),
  Route("PUT", << "users", "change_password", ":id", ":password" >>, "user", "userControllerPutPassword"),
  Route("DELETE", << "links", ":id" >>, "user", "linkControllerDeleteID"),
  Route("GET", << "links" >>, "admin", "linksControllerGet"),
  Route("GET", << "links", "all" >>, "admin", "linksControllerAllGet"),
  Route("GET", << "links", "original", ":shortLink" >>, Unguarded, "linksControllerOriginalLinkGet"),
  Route("GET", << "links", ":id" >>, "user", "linksControllerGetID"),
  Route("GET", << "links", "all", ":id" >>, "user", "linksControllerGetIDAll"),
  Route("GET", << "links", ":attribute", ":data" >>, Unguarded, "linksControllerGetParams"),
  Route("GET", << "links", "all", ":attribute", ":data" >>, "user", "linksControllerGetParamsAll"),
  Route("GET", << "links", "date", ":initialDate", ":finalDate" >>, "user", "linksSearchDateControllerGet"),
  Route("GET", << "count", "id_user", ":id_user", "links" >>, "user", "linkControllerGetCount"),
  Route("GET", << "count", "all", "links" >>, "admin", "linkControllerGetCountAll"),
  Route("POST", << "createLinks" >>, "user", "linkControllerCreate"),
  Route("PUT", << "links", ":id" >>, "user", "linkControllerPutID"),
  Route("POST", << "linksVisited" >>, Unguarded, "linkVisitedControllerCreate"),
  Route("GET", << "linksvisited" >>, "admin", "linksVisitedController"),
  Route("GET", << "linksvisited", "all" >>, "admin", "indexLinksVisitedControllerAllGet"),
  Route("GET", << "linksvisited", ":id" >>, "user", "linksVisitedControllerGetID"),
  Route("GET", << "linksvisited", "all", ":id" >>, "user", "linksVisitedControllerGetIDAll"),
  Route("GET", << "linksvisited", ":attribute", ":data" >>, "user", "linksVisitedControllerGetParams"),
  Route("GET", << "linksvisited", "all", ":attribute", ":data" >>, "user", "linksVisitedControllerGetParamsAll"),
  Route("GET", << "linksvisited", "date", ":initialDate", ":finalDate" >>, "user", "linksVisitedSearchDateControllerGet"),
  Route("GET", << "count", "id_user", ":id_user", "linksVisited" >>, "user", "linkVisitedControllerGetCount"),
  Route("GET", << "count", "all", "linksVisited" >>, "admin", "linkVisitedControllerGetCountAll"),
  Route("GET", << "linksvisited", "id_user", ":id_user" >>, "user", "linksVisitedControllerGetByUserId"),
  Route("DELETE", << "linksvisited", ":id" >>, "user", "linkVisitedControllerDeleteID") >>

\* A layer that matches every path its pattern is a prefix of, as the layer
\* of a mounted router does.
MatchPrefix(pattern, path) ==
  /\ Len(pattern) <= Len(path)
  /\ \A i \in 1..Len(pattern) : pattern[i] \in PathParams \/ pattern[i] = path[i]

\* A layer matches a path of as many segments whose literal segments are
\* the same.
Match(pattern, path) ==
  /\ Len(pattern) = Len(path)
  /\ \A i \in 1..Len(pattern) : pattern[i] \in PathParams \/ pattern[i] = path[i]

RouteMatches(i, method, path) ==
  Routes[i].method = method /\ Match(Routes[i].path, path)

\* The first route, in registration order, of the method that matches the
\* path; 0 when none does.
Router(method, path) ==
  IF \E i \in 1..Len(Routes) : RouteMatches(i, method, path)
    THEN CHOOSE i \in 1..Len(Routes) :
           /\ RouteMatches(i, method, path)
           /\ \A j \in 1..(i - 1) : ~RouteMatches(j, method, path)
    ELSE 0

\* req.params[name] of a request routed to Routes[i].
Param(i, path, name) ==
  path[CHOOSE k \in 1..Len(path) : Routes[i].path[k] = name]


\* The value of the Authorization header: absent, or "Bearer " followed by
\* a string that jwt.verify rejects, by a token createJWT signed more than
\* 10 hours ago, or by one it signed since.
NoToken == [kind |-> "absent", email |-> ""]
GoneEmail == "gone@example.com"
TokenEmails == {SeedProfile[u].email : u \in SeedUsers} \cup {GoneEmail}
Tokens ==
  {NoToken, [kind |-> "malformed", email |-> ""]}
    \cup {[kind |-> k, email |-> e] : k \in {"expired", "valid"}, e \in TokenEmails}

\* The message of the error jwt.verify throws.
jwtError(token) == IF token.kind = "expired" THEN "jwt expired" ELSE "jwt malformed"

\* The role test that lets every stored user through.
AdmitsAnyRole(role, userRole) == role \in {"user", "admin"}

\* role === "user" && (user.role === "user" || user.role === "admin"), or
\* role === "admin" && user.role === "admin"
Admits(role, userRole) ==
  \/ role = "user" /\ userRole \in {"user", "admin"}
  \/ role = "admin" /\ userRole = "admin"

\* The test of the branch without a token that lets every request through.
AdmitsWithoutTokenAlways(role) == TRUE

\* if (role === "") next()
AdmitsWithoutToken(role) == role = ""

\* next() or a route without middleware: the handler h gets the request.
Invoke(p, g, h) ==
  /\ guard' = [guard EXCEPT ![p] = g]
  /\ handler' = [handler EXCEPT ![p] = h]
  /\ Await(p, "handler")

\* The guard answers the request itself.
Reject(p, r) ==
  /\ guard' = [guard EXCEPT ![p] = "rejected"]
  /\ handler' = [handler EXCEPT ![p] = ""]
  /\ Reply(p, r)

\* The middleware up to its await or its response: the header test,
\* jwt.verify and its catch block, and the branch without a token.
protectRouteEnter(p, role, token, h) ==
  IF token.kind = "absent"
    THEN IF AdmitsWithoutToken(role)
           THEN Invoke(p, "next", h)
           ELSE Reject(p, Send(401, "Unauthorized user"))
    ELSE IF token.kind # "valid"
           THEN Reject(p, [status |-> 401, ok |-> FALSE, message |-> jwtError(token)])
           ELSE /\ guard' = [guard EXCEPT ![p] = "find"]
                /\ handler' = [handler EXCEPT ![p] = ""]
                /\ Await(p, "protectRouteFind")

HttpRequest(method, path, token, role, h) ==
  [kind |-> "http", method |-> method, path |-> path, token |-> token,
   role |-> role, handler |-> h]

\* The locals of the handlers are fresh for the new request.
Fresh(p, r) ==
  /\ Accept(p, r)
  /\ uncaught' = [uncaught EXCEPT ![p] = ""]

\* app handles a request: the first matching route gets it and runs its
\* middleware if it has one, its handler if not; with no matching route
\* Express answers 404 itself.
dispatch(p, method, path, token) ==
  /\ Free(p)
  /\ \E i \in {Router(method, path)} :
       IF i = 0
         THEN /\ Fresh(p, HttpRequest(method, path, token, Unguarded, ""))
              /\ guard' = [guard EXCEPT ![p] = "none"]
              /\ handler' = [handler EXCEPT ![p] = ""]
              /\ Reply(p, [status |-> 404])
         ELSE /\ Fresh(p, HttpRequest(method, path, token, Routes[i].role,
                                      Routes[i].handler))
              /\ IF Routes[i].role = Unguarded
                   THEN Invoke(p, "none", Routes[i].handler)
                   ELSE protectRouteEnter(p, Routes[i].role, token, Routes[i].handler)
  /\ UNCHANGED << store, accounts, caught, alive >>

\* protectRoute(role) mounted before a handler, for any role the factory
\* accepts.
protectRoute(p, role, token) ==
  /\ Free(p)
  /\ Fresh(p, HttpRequest("ANY", << >>, token, role, "next"))
  /\ protectRouteEnter(p, role, token, "next")
  /\ UNCHANGED << store, accounts, caught, alive >>

\* UsersModel.findOne({where: {email: result.email}})
FindUserByEmail(e) == {u \in users : profile[u].email = e}

\* The user query of the guard answers: no row is 400 "User not found", a
\* row is tested against the required role.
protectRouteFind(p) ==
  /\ pc[p] = "protectRouteFind"
  /\ cnt' = [cnt EXCEPT ![p].ops = @ + 1]
  /\ IF FindUserByEmail(req[p].token.email) = {}
       THEN Reject(p, Send(400, "User not found"))
       ELSE \E u \in FindUserByEmail(req[p].token.email) :
              IF Admits(req[p].role, profile[u].role)
                THEN Invoke(p, "next", req[p].handler)
                ELSE Reject(p, Send(401, "Unauthorized user"))
  /\ UNCHANGED << store, accounts, req, short_link, found, caught, alive,
                  served, uncaught >>


----------------------------------------------------------------------------
(* The read handlers of linksRouteGet.                                     *)

\* What MySQL makes of a path segment compared with an integer column.
ParseInt(w) ==
  CASE w = "1" -> 1
    [] w = "2" -> 2
    [] w = "3" -> 3
    [] OTHER -> NULL

\* The symbols of a path segment.
Chars(w) ==
  CASE w = "aaaa" -> << "a", "a", "a", "a" >>
    [] w = "AAAA" -> << "A", "A", "A", "A" >>
    [] OTHER -> << >>

\* new Date(`${param}T00:00:00`) is a valid date.
ValidDates == {"2025-01-01", "2025-12-31"}

ReqParam(p, name) == Param(Router(req[p].method, req[p].path), req[p].path, name)
Runs(p, h) == pc[p] = "handler" /\ handler[p] = h

\* linksControllerOriginalLinkGet behind the router: the parameter comes
\* from the path.
originalRouted(p) ==
  /\ Runs(p, "linksControllerOriginalLinkGet")
  /\ short_link' = [short_link EXCEPT ![p] = replacePrefix(Chars(ReqParam(p, ":shortLink")))]
  /\ Await(p, "originalFind")
  /\ UNCHANGED << store, accounts, routing, req, found, cnt, caught, alive, served >>

\* LinksModel.findOne({where: {id_links: req.params.id}}): 200 with the
\* row, or 404.
linksControllerGetID(p) ==
  /\ Runs(p, "linksControllerGetID")
  /\ cnt' = [cnt EXCEPT ![p].ops = @ + 1]
  /\ IF FindLinkById(ParseInt(ReqParam(p, ":id"))) = {}
       THEN Reply(p, Send(404, "Link not found with this id"))
       ELSE \E l \in FindLinkById(ParseInt(ReqParam(p, ":id"))) :
              Reply(p, [status |-> 200, ok |-> TRUE, links |-> {l}])
  /\ UNCHANGED << store, accounts, routing, req, short_link, found, caught,
                  alive, served >>

\* The columns of table links a where clause can name.
LinkColumns == {"id_links", "id_user", "short_link", "original_link"}
ColumnIs(l, attribute, data) ==
  CASE attribute = "id_links" -> l.id_links = ParseInt(data)
    [] attribute = "id_user" -> l.id_user = ParseInt(data)
    [] attribute = "short_link" -> l.short_link = Chars(data)
    [] attribute = "original_link" -> l.original_link = data

\* LinksModel.findAll({where: {[attribute]: data}}): 200 with the rows; a
\* column the table does not have makes the query fail, which is the 500
\* of the catch block.
linksControllerGetParams(p) ==
  /\ Runs(p, "linksControllerGetParams")
  /\ cnt' = [cnt EXCEPT ![p].ops = @ + 1]
  /\ LET attribute == ReqParam(p, ":attribute")
         data == ReqParam(p, ":data")
     IN IF attribute \in LinkColumns
          THEN /\ Reply(p, [status |-> 200, ok |-> TRUE,
                            links |-> {l \in links : ColumnIs(l, attribute, data)}])
               /\ UNCHANGED caught
          ELSE /\ caught' = [caught EXCEPT ![p] = "Unknown column"]
               /\ Reply(p, Send(500, "Unknown column"))
  /\ UNCHANGED << store, accounts, routing, req, short_link, found, alive, served >>

\* linksSearchDateControllerGet: 400 unless both dates parse; else the rows
\* registered between them, which are some of the rows (the model keeps no
\* registration dates).
linksSearchDateControllerGet(p) ==
  /\ Runs(p, "linksSearchDateControllerGet")
  /\ IF ReqParam(p, ":initialDate") \notin ValidDates
        \/ ReqParam(p, ":finalDate") \notin ValidDates
       THEN /\ Reply(p, Send(400, "Invalid date format. Use YYYY-MM-DD."))
            /\ UNCHANGED cnt
       ELSE /\ cnt' = [cnt EXCEPT ![p].ops = @ + 1]
            /\ \E rows \in SUBSET links :
                 Reply(p, [status |-> 200, ok |-> TRUE, links |-> rows])
  /\ UNCHANGED << store, accounts, routing, req, short_link, found, caught,
                  alive, served >>

\* linkControllerDeleteID behind the router: the id comes from the path;
\* isNaN(Number(id)) is 400, else the handler awaits its findOne.
deleteRouted(p) ==
  /\ Runs(p, "linkControllerDeleteID")
  /\ IF ParseInt(ReqParam(p, ":id")) = NULL
       THEN /\ Reply(p, Send(400, "ID has to be a number"))
            /\ UNCHANGED req
       ELSE /\ req' = [req EXCEPT ![p] =
                         DeleteLinkRequest(ParseInt(ReqParam(p, ":id"))) @@ @]
            /\ Await(p, "deleteFind")
  /\ UNCHANGED << store, accounts, routing, short_link, found, cnt, caught,
                  alive, served >>

----------------------------------------------------------------------------
(* The server behind its router.                                           *)

\* The requests the clients send.
GuardRequests == {
  << "GET", Api(<< "links", "original", "aaaa" >>) >>,
  << "GET", Api(<< "links", "1" >>) >>,
  << "GET", Api(<< "links", "id_user", "1" >>) >>,
  << "GET", Api(<< "links", "colour", "1" >>) >>,
  << "GET", Api(<< "links", "date", "2025-01-01", "2025-12-31" >>) >>,
  << "GET", Api(<< "links", "date", "soon", "2025-12-31" >>) >>,
  << "GET", Api(<< "links" >>) >>,
  << "PUT", Api(<< "links", "1" >>) >>,
  << "DELETE", Api(<< "links", "1" >>) >>,
  << "GET", Api(<< "nothing" >>) >> }

\* The roles protectRoute is documented to accept.
GuardRoles == {"", "user", "admin"}

\* The credentials of the routed requests: none, a rejected one, and one
\* of a stored user of each role.
RoutedTokens ==
  {NoToken, [kind |-> "malformed", email |-> ""]}
    \cup {[kind |-> "valid", email |-> SeedProfile[u].email] : u \in SeedUsers}

\* The table the routed requests run against: one Link per generated code.
RoutedLinks ==
  {StoredRow(k, "https://example.org", 1 + (k % 2)) : k \in 0..(MaxDraws - 1)}

InitGuard ==
  /\ users = SeedUsers
  /\ links = RoutedLinks
  /\ nextId = MaxDraws + 1
  /\ pc = [p \in Procs |-> "idle"]
  /\ req = [p \in Procs |-> NoRequest]
  /\ short_link = [p \in Procs |-> NoCode]
  /\ found = [p \in Procs |-> NULL]
  /\ cnt = [p \in Procs |-> NoCalls]
  /\ caught = [p \in Procs |-> ""]
  /\ resp = [p \in Procs |-> NoResponse]
  /\ alive = TRUE
  /\ served = 0
  /\ profile = SeedProfile
  /\ visits = {}
  /\ nextVisit = 1
  /\ nextUser = 3
  /\ guard = [p \in Procs |-> "none"]
  /\ handler = [p \in Procs |-> ""]
  /\ uncaught = [p \in Procs |-> ""]

\* The guard alone, for every role and every credential.
NextGuard ==
  \/ \E p \in Procs, role \in GuardRoles, t \in Tokens : protectRoute(p, role, t)
  \/ \E p \in Procs : protectRouteFind(p)

SpecGuard == InitGuard /\ [][NextGuard]_vars

\* The router, the guards of its routes and the read handlers of the links.
NextRoutes ==
  \/ \E p \in Procs, r \in GuardRequests, t \in RoutedTokens : dispatch(p, r[1], r[2], t)
  \/ \E p \in Procs : protectRouteFind(p)
  \/ \E p \in Procs : originalRouted(p)
  \/ \E p \in Procs : originalFind(p)
  \/ \E p \in Procs : linksControllerGetID(p)
  \/ \E p \in Procs : linksControllerGetParams(p)
  \/ \E p \in Procs : linksSearchDateControllerGet(p)
  \/ \E p \in Procs : deleteRouted(p)
  \/ \E p \in Procs : deleteFind(p)
  \/ \E p \in Procs : deleteDestroy(p)

SpecRoutes == InitGuard /\ [][NextRoutes]_vars


----------------------------------------------------------------------------
(* Properties of the router and of the access guard.                       *)

\* The slot holds a request that came through the router or the guard.
Routed(p) == "token" \in DOMAIN req[p]
Answered(p) == Routed(p) /\ pc[p] = "done"

\* The read handlers of the links that the description puts behind the
\* guard.
GuardedReads == {"linksControllerGetID", "linksControllerGetParams",
                 "linksSearchDateControllerGet"}

\* C13: GET /links/:id, GET /links/:attribute/:data and
\* GET /links/date/:initialDate/:finalDate run their handler, and so return
\* link data, only for a request the access guard passed on with next().
C13_ReadsGuarded ==
  \A p \in Procs :
    (Routed(p) /\ handler[p] \in GuardedReads) => guard[p] = "next"

\* The stored user the credential of the request names.
CredentialUser(p) == FindUserByEmail(req[p].token.email)
ValidCredential(p) ==
  Routed(p) /\ req[p].token.kind = "valid" /\ CredentialUser(p) # {}
Admitted(p) ==
  /\ guard'[p] = "next" /\ handler'[p] = req[p].handler
  /\ pc'[p] = "handler" /\ resp'[p] = NoResponse
Refused(p) ==
  /\ guard'[p] = "rejected" /\ handler'[p] = ""
  /\ pc'[p] = "done" /\ resp'[p].status >= 400

\* C14: with a valid credential of a stored user the guard calls next()
\* when it requires "user" and the user is "user" or "admin", and when it
\* requires "admin" and the user is "admin"; when it requires "admin" and
\* the user is "user" it answers an error and does not call next().
C14_RoleMatrix ==
  [][\A p \in Procs, u \in users :
       (/\ pc[p] = "protectRouteFind" /\ pc'[p] # "protectRouteFind"
        /\ ValidCredential(p) /\ u \in CredentialUser(p))
         => /\ (req[p].role = "user" /\ profile[u].role \in {"user", "admin"})
                 => Admitted(p)
            /\ (req[p].role = "admin" /\ profile[u].role = "admin")
                 => Admitted(p)
            /\ (req[p].role = "admin" /\ profile[u].role = "user")
                 => Refused(p)]_vars

C14_Witness ==
  \E p \in Procs, q \in Procs, u \in users, v \in users :
    /\ ValidCredential(p) /\ u \in CredentialUser(p)
    /\ req[p].role = "user" /\ profile[u].role = "admin" /\ guard[p] = "next"
    /\ ValidCredential(q) /\ v \in CredentialUser(q)
    /\ req[q].role = "admin" /\ profile[v].role = "user"
    /\ guard[q] = "rejected" /\ resp[q].status = 401

\* C15: a guard whose required role is empty passes the request on with
\* next(), when the request has no credential and when it has a valid
\* credential of a stored user of either role.
C15_EmptyRoleProceeds ==
  \A p \in Procs :
    (/\ Routed(p) /\ req[p].role = "" /\ pc[p] \in {"handler", "done"}
     /\ (req[p].token.kind = "absent" \/ ValidCredential(p)))
      => guard[p] = "next" /\ handler[p] = req[p].handler

\* The request has no credential and its route has a guard that requires
\* a role.
NoCredentialGuarded(p) ==
  /\ Routed(p) /\ req[p].token.kind = "absent"
  /\ req[p].role \notin {"", Unguarded}

\* C16: a request without a credential to a route whose guard requires a
\* role is answered 401 as it is accepted, its handler is never invoked
\* and the store is unchanged.
C16_NoCredentialRejected ==
  [][served' = served + 1 =>
       \A p \in Procs :
         NoCredentialGuarded(p)'
           => /\ pc'[p] = "done"
              /\ resp'[p] = Send(401, "Unauthorized user")
              /\ guard'[p] = "rejected" /\ handler'[p] = ""
              /\ store' = store /\ accounts' = accounts]_vars

C16_Witness ==
  \E p \in Procs :
    /\ NoCredentialGuarded(p) /\ req[p].method = "DELETE"
    /\ pc[p] = "done" /\ resp[p].status = 401 /\ handler[p] = ""
    /\ FindLinkById(ParseInt(ReqParam(p, ":id"))) # {}

\* C17: every request the guard refuses (invalid or expired credential,
\* credential of no stored user, insufficient role) is answered 401 and
\* not passed on.
C17_RefusalIs401 ==
  \A p \in Procs :
    (Routed(p) /\ guard[p] = "rejected")
      => resp[p].status = 401 /\ handler[p] = ""

\* C18: the body of every error response has the fields ok, which is
\* false, and error, which is the message.
C18_ErrorBodyShape ==
  \A p \in Procs :
    (Answered(p) /\ resp[p].status >= 400)
      => /\ DOMAIN resp[p] = {"status", "ok", "error"}
         /\ resp[p].ok = FALSE


----------------------------------------------------------------------------
(* The user handlers: authControllerLogin, userControllerPutID and         *)
(* userControllerPutPassword.                                              *)

\* A field of req.body that the client sent.
Has(body, f) == f \in DOMAIN body

\* email.trim() is the empty string.
Blank(w) == w \in {"", " "}

\* /^[^\s@]+@[^\s@]+\.[^\s@]+$/.test(email)
emailVerification(w) ==
  w \in {"user@example.com", "admin@example.com", "anna@example.com",
         "nobody@example.com", "new@example.com"}

\* The length of the strings the bodies carry.
length(w) ==
  CASE w = "" -> 0
    [] w = "Al" -> 2
    [] w = "short" -> 5
    [] w = "Anna B" -> 6
    [] w \in {"password1", "password2", "password3", "plaintext"} -> 9

\* new Date(`${b_date}T00:00:00`) is a valid date.
ValidBirthDates == {"2000-01-01"}

\* An error leaves the async handler: Express 4 does not observe the
\* rejected promise, so nothing more is sent for the request; Node ends the
\* process on an unhandled rejection or only warns, by version and flags.
Escape(p, message, sent) ==
  /\ uncaught' = [uncaught EXCEPT ![p] = message]
  /\ resp' = [resp EXCEPT ![p] = sent]
  /\ pc' = [pc EXCEPT ![p] = "failed"]
  /\ alive' \in BOOLEAN

LoginRequest(body) == [kind |-> "login", body |-> body]

\* Entry of authControllerLogin, before its try block: email.trim() of a
\* missing email throws; a blank email sends 400 and hands the response
\* object to validator.isEmail, which throws; any other email goes on to
\* the user query (the result of isEmail is not used).
authControllerLogin(p, body) ==
  /\ Free(p)
  /\ Accept(p, LoginRequest(body))
  /\ caught' = [caught EXCEPT ![p] = ""]
  /\ IF ~Has(body, "email")
       THEN Escape(p, "Cannot read properties of undefined (reading 'trim')",
                   NoResponse)
       ELSE IF Blank(body.email)
              THEN Escape(p, "Expected a string but received a ServerResponse",
                          Send(400, "Invalid email format"))
              ELSE /\ Await(p, "loginFind")
                   /\ uncaught' = [uncaught EXCEPT ![p] = ""]
                   /\ UNCHANGED alive
  /\ UNCHANGED << store, accounts, guard, handler >>

\* The user query of the login answers: 400 without a row or with another
\* password, 200 with a token for the matching password; compareSync
\* throws on a missing password, and the catch block sends 500 {error}.
loginFind(p) ==
  /\ alive
  /\ pc[p] = "loginFind"
  /\ cnt' = [cnt EXCEPT ![p].ops = @ + 1]
  /\ LET body == req[p].body IN
       IF FindUserByEmail(body.email) = {}
         THEN /\ Reply(p, Send(400, "Invalid email or password"))
              /\ UNCHANGED caught
         ELSE \E u \in FindUserByEmail(body.email) :
                IF ~Has(body, "password")
                  THEN /\ caught' = [caught EXCEPT ![p] = "Illegal arguments: undefined, string"]
                       /\ Reply(p, [status |-> 500,
                                    error |-> "Illegal arguments: undefined, string"])
                  ELSE /\ UNCHANGED caught
                       /\ IF bcryptCompare(body.password, profile[u].password)
                            THEN Reply(p, [status |-> 200, ok |-> TRUE,
                                           token |-> [kind |-> "valid", email |-> body.email],
                                           user |-> u, message |-> "Login successful"])
                            ELSE Reply(p, Send(400, "Invalid email or password"))
  /\ UNCHANGED << store, accounts, routing, req, short_link, found, alive, served >>

UserPutRequest(id, body) == [kind |-> "putUser", id |-> id, body |-> body]

\* Entry of userControllerPutID, before its try block: name.length of a
\* missing name throws; then the 400 answers for a short name, an invalid
\* b_date and an invalid email.
userControllerPutID(p, id, body) ==
  /\ Free(p)
  /\ Accept(p, UserPutRequest(id, body))
  /\ caught' = [caught EXCEPT ![p] = ""]
  /\ IF ~Has(body, "name")
       THEN Escape(p, "Cannot read properties of undefined (reading 'length')",
                   NoResponse)
       ELSE /\ uncaught' = [uncaught EXCEPT ![p] = ""]
            /\ UNCHANGED alive
            /\ IF length(body.name) <= 3
                 THEN Reply(p, Send(400, "Nickname must have more than 3 characters"))
                 ELSE IF Has(body, "b_date") /\ body.b_date \notin ValidBirthDates
                        THEN Reply(p, Send(400, "Invalid date format"))
                        ELSE IF /\ Has(body, "email") /\ body.email # ""
                                /\ ~emailVerification(body.email)
                               THEN Reply(p, Send(400, "Invalid email format"))
                               ELSE Await(p, "userPutFind")
  /\ UNCHANGED << store, accounts, guard, handler >>

\* UsersModel.findOne({where: {id_user: req.params.id}})
userPutFind(p) ==
  /\ alive
  /\ pc[p] = "userPutFind"
  /\ cnt' = [cnt EXCEPT ![p].ops = @ + 1]
  /\ IF req[p].id \in users
       THEN /\ found' = [found EXCEPT ![p] = req[p].id]
            /\ pc' = [pc EXCEPT ![p] = "userPutUpdate"]
            /\ UNCHANGED resp
       ELSE /\ Reply(p, Send(404, "User not found with this id"))
            /\ UNCHANGED found
  /\ UNCHANGED << store, accounts, routing, req, short_link, caught, alive, served >>

\* The columns of table users that update() takes from an object.
UserColumns == {"email", "password", "name", "role"}

\* The row after update(values): every column the object names is set.
Updated(row, values) ==
  [c \in UserColumns |-> IF c \in DOMAIN values THEN values[c] ELSE row[c]]

\* The unique index on users.email rejects the update.
EmailTaken(u, values) ==
  /\ "email" \in DOMAIN values
  /\ \E v \in users \ {u} : profile[v].email = values.email

\* user.update(req.body): the whole body is written to the row; a
\* duplicate email is the 500 of the catch block; a row deleted since the
\* query is not written.
userPutUpdate(p) ==
  /\ alive
  /\ pc[p] = "userPutUpdate"
  /\ cnt' = [cnt EXCEPT ![p].ops = @ + 1]
  /\ LET u == found[p]  body == req[p].body IN
       IF u \in users /\ EmailTaken(u, body)
         THEN /\ caught' = [caught EXCEPT ![p] = "Validation error"]
              /\ Reply(p, Send(500, "Validation error"))
              /\ UNCHANGED profile
         ELSE /\ profile' = IF u \in users
                              THEN [profile EXCEPT ![u] = Updated(@, body)]
                              ELSE profile
              /\ Reply(p, [status |-> 200, ok |-> TRUE, user |-> u,
                           message |-> "User updated"])
              /\ UNCHANGED caught
  /\ UNCHANGED << store, visits, nextVisit, nextUser, routing, req, short_link, found,
                  alive, served >>

PasswordRequest(body) == [kind |-> "putPassword", body |-> body]

\* Entry of userControllerPutPassword, before its try block:
\* plainPassword.length of a missing password throws; a password shorter
\* than 8 is 400.
userControllerPutPassword(p, body) ==
  /\ Free(p)
  /\ Accept(p, PasswordRequest(body))
  /\ caught' = [caught EXCEPT ![p] = ""]
  /\ IF ~Has(body, "password")
       THEN Escape(p, "Cannot read properties of undefined (reading 'length')",
                   NoResponse)
       ELSE /\ uncaught' = [uncaught EXCEPT ![p] = ""]
            /\ UNCHANGED alive
            /\ IF length(body.password) < 8
                 THEN Reply(p, Send(400, "The password must have at least 8 characters"))
                 ELSE Await(p, "passwordFind")
  /\ UNCHANGED << store, accounts, guard, handler >>

\* The user query answers and bcrypt.compare runs on its row: an undefined
\* id makes the query throw and no row makes user.password throw, both
\* caught as 500; the stored password again is 400; else the handler
\* hashes the password and awaits the update.
passwordFind(p) ==
  /\ alive
  /\ pc[p] = "passwordFind"
  /\ cnt' = [cnt EXCEPT ![p].ops = @ + 1]
  /\ LET body == req[p].body IN
       IF ~Has(body, "id")
         THEN /\ caught' = [caught EXCEPT ![p] = UndefinedWhere]
              /\ Reply(p, Send(500, UndefinedWhere))
              /\ UNCHANGED found
         ELSE IF body.id \notin users
                THEN /\ caught' = [caught EXCEPT ![p] =
                                     "Cannot read properties of null (reading 'password')"]
                     /\ Reply(p, Send(500, "Cannot read properties of null (reading 'password')"))
                     /\ UNCHANGED found
                ELSE /\ UNCHANGED caught
                     /\ IF bcryptCompare(body.password, profile[body.id].password)
                          THEN /\ Reply(p, Send(400, "The new password cannot be the same as the previous one"))
                               /\ UNCHANGED found
                          ELSE /\ found' = [found EXCEPT ![p] = body.id]
                               /\ pc' = [pc EXCEPT ![p] = "passwordUpdate"]
                               /\ UNCHANGED resp
  /\ UNCHANGED << store, accounts, routing, req, short_link, alive, served >>

\* user.update({password: hashedPassword})
passwordUpdate(p) ==
  /\ alive
  /\ pc[p] = "passwordUpdate"
  /\ cnt' = [cnt EXCEPT ![p].ops = @ + 1]
  /\ profile' = IF found[p] \in users
                  THEN [profile EXCEPT ![found[p]] =
                          Updated(@, [password |-> bcryptHash(req[p].body.password)])]
                  ELSE profile
  /\ Reply(p, [status |-> 200, ok |-> TRUE, user |-> found[p],
               message |-> "User password updated"])
  /\ UNCHANGED << store, visits, nextVisit, nextUser, routing, req, short_link, found,
                  caught, alive, served >>

\* The bodies of the login requests.
LoginBodies == {
  << >>,
  [email |-> ""],
  [email |-> "user@example.com"],
  [email |-> "user@example.com", password |-> "password1"],
  [email |-> "user@example.com", password |-> "password3"],
  [email |-> "nobody@example.com", password |-> "password1"],
  [email |-> "not-an-email", password |-> "password1"] }

\* The ids and the bodies of the user updates.
UserParams == {1, 3}
UpdateBodies == {
  << >>,
  [name |-> "Al"],
  [name |-> "Anna B"],
  [name |-> "Anna B", b_date |-> "yesterday"],
  [name |-> "Anna B", email |-> "not-an-email"],
  [name |-> "Anna B", email |-> "admin@example.com"],
  [name |-> "Anna B", role |-> "admin", password |-> "plaintext"] }

\* The bodies of the password changes.
PasswordBodies == {
  << >>,
  [id |-> 1, password |-> "short"],
  [id |-> 1, password |-> "password1"],
  [id |-> 1, password |-> "password3"],
  [id |-> 3, password |-> "password3"],
  [password |-> "password3"] }

NextUsers ==
  \/ \E p \in Procs, body \in LoginBodies : authControllerLogin(p, body)
  \/ \E p \in Procs : loginFind(p)
  \/ \E p \in Procs, id \in UserParams, body \in UpdateBodies : userControllerPutID(p, id, body)
  \/ \E p \in Procs : userPutFind(p)
  \/ \E p \in Procs : userPutUpdate(p)
  \/ \E p \in Procs, body \in PasswordBodies : userControllerPutPassword(p, body)
  \/ \E p \in Procs : passwordFind(p)
  \/ \E p \in Procs : passwordUpdate(p)

SpecUsers == Init /\ [][NextUsers]_vars

\* The handler of the slot's request has returned or thrown.
Ended(p) == pc[p] \in {"done", "failed"}

\* C19: whatever fields the body of a request lacks, its handler ends with
\* one response sent and no error leaving it, and the server keeps
\* running.
C19_OneResponseNoEscape ==
  /\ alive
  /\ \A p \in Procs :
       Ended(p) => /\ resp[p] # NoResponse
                   /\ uncaught[p] = ""


----------------------------------------------------------------------------
(* The visits: linkVisitedControllerCreate and                             *)
(* linkVisitedControllerDeleteID.                                          *)

VisitRequest(u, l) ==
  [kind |-> "visit", original_link |-> "", id_user |-> u, id |-> l]

\* !id_user, !id_links
Missing(v) == v \in {NULL, UNDEFINED}

\* Entry: if (!id_user) 400; else UsersModel.findOne({where: {id_user}}).
linkVisitedControllerCreate(p, u, l) ==
  /\ Free(p)
  /\ Accept(p, VisitRequest(u, l))
  /\ caught' = [caught EXCEPT ![p] = ""]
  /\ IF Missing(u)
       THEN Reply(p, Send(400, "id_user is required"))
       ELSE Await(p, "visitFindUser")
  /\ UNCHANGED << store, accounts, routing, alive >>

\* The user query answers: 400 without a row or without id_links; else
\* LinksModel.findOne({where: {id_links}}).
visitFindUser(p) ==
  /\ pc[p] = "visitFindUser"
  /\ cnt' = [cnt EXCEPT ![p].ops = @ + 1]
  /\ IF req[p].id_user \notin users
       THEN Reply(p, Send(400, "User does not exist"))
       ELSE IF Missing(req[p].id)
              THEN Reply(p, Send(400, "id_links is required"))
              ELSE /\ pc' = [pc EXCEPT ![p] = "visitFindLink"]
                   /\ UNCHANGED resp
  /\ UNCHANGED << store, accounts, routing, req, short_link, found, caught,
                  alive, served >>

\* The link query answers: 400 without a row; else LinksVisitedModel.create.
visitFindLink(p) ==
  /\ pc[p] = "visitFindLink"
  /\ cnt' = [cnt EXCEPT ![p].ops = @ + 1]
  /\ IF FindLinkById(req[p].id) = {}
       THEN Reply(p, Send(400, "Link does not exist"))
       ELSE /\ pc' = [pc EXCEPT ![p] = "visitCreate"]
            /\ UNCHANGED resp
  /\ UNCHANGED << store, accounts, routing, req, short_link, found, caught,
                  alive, served >>

NewVisit(p) ==
  [id_links_visited |-> nextVisit, id_user |-> req[p].id_user,
   id_links |-> req[p].id]

\* The foreign keys of links_visited: id_user references users and
\* id_links references links.
VisitViolations(row) ==
  IF row.id_user \notin users \/ FindLinkById(row.id_links) = {}
    THEN {"Cannot add or update a child row: a foreign key constraint fails"}
    ELSE {}

\* The insert is executed: 201, or the foreign keys reject the row and the
\* catch block answers 500 with the message.
visitCreate(p) ==
  /\ pc[p] = "visitCreate"
  /\ cnt' = [cnt EXCEPT ![p].ops = @ + 1, ![p].ins = @ + 1]
  /\ IF VisitViolations(NewVisit(p)) = {}
       THEN /\ visits' = visits \cup {NewVisit(p)}
            /\ nextVisit' = nextVisit + 1
            /\ Reply(p, Send(201, ""))
            /\ UNCHANGED caught
       ELSE /\ \E e \in VisitViolations(NewVisit(p)) :
                 /\ caught' = [caught EXCEPT ![p] = e]
                 /\ Reply(p, Send(500, e))
            /\ UNCHANGED << visits, nextVisit >>
  /\ UNCHANGED << store, profile, nextUser, routing, req, short_link, found,
                  alive, served >>

DeleteVisitRequest(id) ==
  [kind |-> "deleteVisit", original_link |-> "", id_user |-> NULL, id |-> id]

\* LinksVisitedModel.findOne({where: {id_links_visited}})
FindVisitById(id) == {v \in visits : v.id_links_visited = id}

\* Entry: the id is a number; then the visit query.
linkVisitedControllerDeleteID(p, id) ==
  /\ Free(p)
  /\ Accept(p, DeleteVisitRequest(id))
  /\ caught' = [caught EXCEPT ![p] = ""]
  /\ Await(p, "visitDeleteFind")
  /\ UNCHANGED << store, accounts, routing, alive >>

visitDeleteFind(p) ==
  /\ pc[p] = "visitDeleteFind"
  /\ cnt' = [cnt EXCEPT ![p].ops = @ + 1]
  /\ IF FindVisitById(req[p].id) # {}
       THEN /\ found' = [found EXCEPT ![p] = req[p].id]
            /\ pc' = [pc EXCEPT ![p] = "visitDestroy"]
            /\ UNCHANGED resp
       ELSE /\ Reply(p, Send(404, "Link visited not found with id "))
            /\ UNCHANGED found
  /\ UNCHANGED << store, accounts, routing, req, short_link, caught, alive, served >>

\* linkVisited.destroy()
visitDestroy(p) ==
  /\ pc[p] = "visitDestroy"
  /\ cnt' = [cnt EXCEPT ![p].ops = @ + 1]
  /\ visits' = {v \in visits : v.id_links_visited # found[p]}
  /\ Reply(p, Send(200, ""))
  /\ UNCHANGED << store, profile, nextVisit, nextUser, routing, req, short_link, found,
                  caught, alive, served >>

\* The ids the visit requests name.
VisitUsers == SeedUsers \cup {NULL}
VisitLinks == {1, NULL}
VisitIds == {1}

\* Creations and deletions of Users' Links and visits.
NextVisits ==
  \/ \E p \in Procs, u \in SeedUsers : linkControllerCreate(p, "https://example.org", u)
  \/ \E p \in Procs : createExistsLink(p)
  \/ \E p \in Procs : createExistsShortLink(p)
  \/ \E p \in Procs : createInsert(p)
  \/ \E p \in Procs, id \in LinkIds : linkControllerDeleteID(p, id)
  \/ \E p \in Procs : deleteFind(p)
  \/ \E p \in Procs : deleteDestroy(p)
  \/ \E p \in Procs, id \in SeedUsers : userControllerDeleteID(p, id)
  \/ \E p \in Procs : userFind(p)
  \/ \E p \in Procs : userDestroy(p)
  \/ \E p \in Procs, u \in VisitUsers, l \in VisitLinks : linkVisitedControllerCreate(p, u, l)
  \/ \E p \in Procs : visitFindUser(p)
  \/ \E p \in Procs : visitFindLink(p)
  \/ \E p \in Procs : visitCreate(p)
  \/ \E p \in Procs, id \in VisitIds : linkVisitedControllerDeleteID(p, id)
  \/ \E p \in Procs : visitDeleteFind(p)
  \/ \E p \in Procs : visitDestroy(p)

SpecVisits == Init /\ [][NextVisits]_vars

\* C20: every Link's id_user is the id of a stored User, and every visit's
\* id_user and id_links are the ids of a stored User and a stored Link:
\* deleting a User or a Link takes the dependent Links and visits with it.
C20_ReferencesExist ==
  /\ \A l \in links : l.id_user \in users
  /\ \A v \in visits : /\ v.id_user \in users
                       /\ FindLinkById(v.id_links) # {}

\* A Link was created and visited, and then deleted: no visit is left.
C20_Witness ==
  \E p \in Procs :
    /\ pc[p] = "done" /\ req[p].kind = "deleteLink" /\ resp[p].status = 200
    /\ nextId = 2 /\ nextVisit = 2 /\ served = 3
    /\ links = {} /\ visits = {}

-----------------------------------------------------------------------------
(* Properties of the columns of a stored Link.                             *)

\* Some request changed the destination of a Link in this step.
Retargets ==
  \E l \in links, m \in links' :
    m.id_links = l.id_links /\ m.original_link # l.original_link

\* C21: no step changes the short_link or the id_user of a Link that exists
\* before and after it (a Link is identified by its id_links), and the only
\* step that changes an original_link is the update of PUT /links/:id; every
\* other step creates Links, deletes Links or leaves them as they are.
C21_OnlyDestinationChanges ==
  [][ /\ \A l \in links, m \in links' :
           m.id_links = l.id_links =>
             m.short_link = l.short_link /\ m.id_user = l.id_user
      /\ Retargets =>
           \E p \in Procs : /\ pc[p] = "putUpdate"
                            /\ pc'[p] = "done"
                            /\ resp'[p].status = 200 ]_vars

\* A PUT answered 200 whose Link, created by the other request with another
\* destination, now has the destination of the PUT and its first short_link.
C21_Witness ==
  \E p \in Procs, q \in Procs, l \in links :
    /\ p # q
    /\ req[p].kind = "put" /\ pc[p] = "done" /\ resp[p].status = 200
    /\ req[q].kind = "create" /\ pc[q] = "done" /\ resp[q].status = 201
    /\ l.id_links = req[p].id
    /\ l.short_link = short_link[q]
    /\ l.id_user = req[q].id_user
    /\ l.original_link = req[p].original_link
    /\ req[q].original_link # req[p].original_link

----------------------------------------------------------------------------
(* Registration: userControllerCreate, POST /api/v1/register.              *)

\* validator.isEmail(email)
isEmail(w) ==
  w \in {"user@example.com", "admin@example.com", "anna@example.com",
         "nobody@example.com", "new@example.com"}

RegisterRequest(body) == [kind |-> "register", body |-> body]

\* The catch block of userControllerCreate: 500 {ok: false, error: message}
registerCatch(p, message) ==
  /\ caught' = [caught EXCEPT ![p] = message]
  /\ Reply(p, Send(500, message))

\* Entry of userControllerCreate, all of it inside the try block: isEmail
\* and name.length throw on a missing field; then the 400 answers for an
\* invalid email and a short name; then the query by email.
userControllerCreate(p, body) ==
  /\ Free(p)
  /\ Accept(p, RegisterRequest(body))
  /\ uncaught' = [uncaught EXCEPT ![p] = ""]
  /\ IF ~Has(body, "email")
       THEN registerCatch(p, "Expected a string but received a undefined")
       ELSE IF ~isEmail(body.email)
              THEN /\ Reply(p, Send(400, "Invalid email format"))
                   /\ caught' = [caught EXCEPT ![p] = ""]
              ELSE IF ~Has(body, "name")
                     THEN registerCatch(p, "Cannot read properties of undefined (reading 'length')")
                     ELSE /\ caught' = [caught EXCEPT ![p] = ""]
                          /\ IF length(body.name) <= 3
                               THEN Reply(p, Send(400, "Name must have more than 3 characters"))
                               ELSE Await(p, "registerFind")
  /\ UNCHANGED << store, accounts, guard, handler, alive >>

\* UsersModel.findOne({where: {email}}) answers: a row is 400 "Email
\* already exists"; without one the handler awaits bcrypt.hash.
registerFind(p) ==
  /\ alive
  /\ pc[p] = "registerFind"
  /\ cnt' = [cnt EXCEPT ![p].ops = @ + 1]
  /\ IF FindUserByEmail(req[p].body.email) # {}
       THEN /\ \E u \in FindUserByEmail(req[p].body.email) :
                 found' = [found EXCEPT ![p] = u]
            /\ Reply(p, Send(400, "Email already exists"))
       ELSE /\ pc' = [pc EXCEPT ![p] = "registerHash"]
            /\ UNCHANGED << found, resp >>
  /\ UNCHANGED << store, accounts, routing, req, short_link, caught, alive,
                  served >>

\* bcrypt.hash(password, 10) answers: it rejects a missing password, which
\* is the 500 of the catch block; a password shorter than 8 is 400; else the
\* handler awaits UsersModel.create.
registerHash(p) ==
  /\ alive
  /\ pc[p] = "registerHash"
  /\ LET body == req[p].body IN
       IF ~Has(body, "password")
         THEN registerCatch(p, "data and salt arguments required")
         ELSE /\ UNCHANGED caught
              /\ IF length(body.password) < 8
                   THEN Reply(p, Send(400, "The password must have at least 8 characters"))
                   ELSE /\ pc' = [pc EXCEPT ![p] = "registerCreate"]
                        /\ UNCHANGED resp
  /\ UNCHANGED << store, accounts, routing, req, short_link, found, cnt, alive,
                  served >>

\* The row of UsersModel.create({email, password: hashedPassword, name,
\* b_date, role: 'user'})
NewUser(p) ==
  [email |-> req[p].body.email, password |-> bcryptHash(req[p].body.password),
   name |-> req[p].body.name, role |-> "user"]

\* Table users without the unique index on email.
RegisterViolationsNoIndex(row) == {}

\* What the unique index on users.email holds against the insert of row.
RegisterViolations(row) ==
  IF \E u \in users : profile[u].email = row.email
    THEN {"Validation error"}
    ELSE {}

\* The insert is executed: 201 with the new row, or the unique index
\* rejects it and the catch block answers 500.
registerCreate(p) ==
  /\ alive
  /\ pc[p] = "registerCreate"
  /\ cnt' = [cnt EXCEPT ![p].ops = @ + 1, ![p].ins = @ + 1]
  /\ IF RegisterViolations(NewUser(p)) = {}
       THEN /\ users' = users \cup {nextUser}
            /\ profile' = [u \in users \cup {nextUser} |->
                             IF u = nextUser THEN NewUser(p) ELSE profile[u]]
            /\ nextUser' = nextUser + 1
            /\ Reply(p, [status |-> 201, ok |-> TRUE,
                         token |-> [kind |-> "valid", email |-> req[p].body.email],
                         user |-> nextUser, message |-> "New user created"])
            /\ UNCHANGED caught
       ELSE /\ \E e \in RegisterViolations(NewUser(p)) : registerCatch(p, e)
            /\ UNCHANGED << users, profile, nextUser >>
  /\ UNCHANGED << links, nextId, visits, nextVisit, routing, req, short_link,
                  found, alive, served >>

\* The bodies of the registrations.
RegisterBodies == {
  << >>,
  [email |-> "not-an-email", name |-> "Anna B", password |-> "password3"],
  [email |-> "new@example.com", password |-> "password3"],
  [email |-> "new@example.com", name |-> "Al", password |-> "password3"],
  [email |-> "new@example.com", name |-> "Anna B"],
  [email |-> "new@example.com", name |-> "Anna B", password |-> "short"],
  [email |-> "new@example.com", name |-> "Anna B", password |-> "password3"],
  [email |-> "user@example.com", name |-> "Anna B", password |-> "password3"] }

\* The user updates that run beside the registrations.
RegisterUpdateBodies == {
  << >>,
  [name |-> "Al"],
  [name |-> "Anna B", b_date |-> "yesterday"],
  [name |-> "Anna B", email |-> "not-an-email"],
  [name |-> "Anna B", email |-> "admin@example.com"],
  [name |-> "Anna B", email |-> "new@example.com"] }

NextRegister ==
  \/ \E p \in Procs, body \in RegisterBodies : userControllerCreate(p, body)
  \/ \E p \in Procs : registerFind(p)
  \/ \E p \in Procs : registerHash(p)
  \/ \E p \in Procs : registerCreate(p)
  \/ \E p \in Procs, id \in UserParams, body \in RegisterUpdateBodies :
       userControllerPutID(p, id, body)
  \/ \E p \in Procs : userPutFind(p)
  \/ \E p \in Procs : userPutUpdate(p)

SpecRegister == Init /\ [][NextRegister]_vars

\* No two rows of table users have the same email.
UniqueEmail ==
  \A u \in users, v \in users : u # v => profile[u].email # profile[v].email

\* The query of a registration finds its email stored.
FindsEmail(p) ==
  pc[p] = "registerFind" /\ FindUserByEmail(req[p].body.email) # {}

\* C22: in every reachable state no two Users have the same email, whatever
\* the interleaving of registrations and user updates; and a registration
\* whose query by email finds the email stored is answered 400 "Email
\* already exists" in that step, with table users as it was.
C22_EmailUnique ==
  /\ []UniqueEmail
  /\ [][ \A p \in Procs :
           (FindsEmail(p) /\ pc'[p] # pc[p])
             => /\ pc'[p] = "done"
                /\ resp'[p] = Send(400, "Email already exists")
                /\ users' = users /\ profile' = profile ]_vars

\* A registration answered 201 is stored, and the other slot's registration
\* with the same email was answered 400 "Email already exists".
C22_Witness ==
  \E p \in Procs, q \in Procs :
    /\ p # q
    /\ req[p].kind = "register" /\ pc[p] = "done" /\ resp[p].status = 201
    /\ resp[p].user \in users
    /\ profile[resp[p].user].email = req[p].body.email
    /\ req[q].kind = "register" /\ pc[q] = "done"
    /\ req[q].body = req[p].body
    /\ resp[q] = Send(400, "Email already exists")

\* Both slots passed the query before either inserted: the unique index
\* answered the second insert with 500.
C22_WitnessRace ==
  \E p \in Procs, q \in Procs :
    /\ p # q
    /\ req[p].kind = "register" /\ pc[p] = "done" /\ resp[p].status = 201
    /\ req[q].kind = "register" /\ pc[q] = "done"
    /\ resp[q] = Send(500, "Validation error")
    /\ UniqueEmail

----------------------------------------------------------------------------
(* linkControllerCreate with a store that can be unreachable.              *)

\* The message of the error a query rejects with when the store is
\* unreachable.
StoreUnreachable == "connect ECONNREFUSED"

\* The awaits of linkControllerCreate on the store: the duplicate query, the
\* uniqueness query and the insert.
StorageSteps == {"existsLink", "existsShortLink", "create"}

\* A handler that makes the failed call again.
createStoreFailsRetry(p) ==
  /\ pc[p] \in StorageSteps
  /\ cnt[p].ops < 3
  /\ cnt' = [cnt EXCEPT ![p].ops = @ + 1]
  /\ caught' = [caught EXCEPT ![p] = StoreUnreachable]
  /\ UNCHANGED << store, req, short_link, found, pc, resp, alive, served >>
  /\ UNCHANGED << accounts, routing >>

\* The awaited call rejects because the store is unreachable: the statement
\* did not run, and the catch block of the handler answers.
createStoreFails(p) ==
  /\ pc[p] \in StorageSteps
  /\ cnt' = [cnt EXCEPT ![p].ops = @ + 1]
  /\ createCatch(p, StoreUnreachable)
  /\ UNCHANGED << store, req, short_link, found, served >>
  /\ UNCHANGED << accounts, routing >>

NextFailure ==
  \/ \E p \in Procs, o \in BodyLinks, u \in BodyUsers : linkControllerCreate(p, o, u)
  \/ \E p \in Procs : createExistsLink(p)
  \/ \E p \in Procs : createExistsShortLink(p)
  \/ \E p \in Procs : createInsert(p)
  \/ \E p \in Procs : createStoreFails(p)

SpecFailure == Init /\ [][NextFailure]_vars

\* The allocation of the slot met the unreachable store.
StoreFailed(p) == req[p].kind = "create" /\ caught[p] = StoreUnreachable

\* C23: when a storage step of an allocation fails because the store is
\* unreachable, the step that fails answers 500 and ends the handler (the
\* call is not made again), table links is as it was, and the request has
\* executed no insert.
C23_FailureIs500 ==
  /\ [](\A p \in Procs :
          StoreFailed(p) => /\ pc[p] = "done"
                            /\ resp[p].status = 500
                            /\ resp[p].ok = FALSE
                            /\ cnt[p].ins = 0)
  /\ [][ \A p \in Procs :
           (StoreFailed(p)' /\ pc[p] \in StorageSteps)
             => /\ links' = links
                /\ nextId' = nextId
                /\ cnt'[p].ops = cnt[p].ops + 1 ]_vars

\* The store failed at the insert of one allocation, after both of its
\* queries were answered, and the other slot's allocation was stored.
C23_Witness ==
  \E p \in Procs, q \in Procs :
    /\ p # q
    /\ StoreFailed(p) /\ pc[p] = "done" /\ cnt[p].ops = 3 /\ cnt[p].uniq = 1
    /\ resp[p] = Send(500, "Internal server error")
    /\ req[q].kind = "create" /\ pc[q] = "done" /\ resp[q].status = 201
    /\ \A l \in links : l.short_link # short_link[p] \/ l.short_link = short_link[q]

\* The store failed at the first query of an allocation.
C23_WitnessFirstQuery ==
  \E p \in Procs :
    /\ StoreFailed(p) /\ pc[p] = "done" /\ cnt[p].ops = 1
    /\ resp[p] = Send(500, "Internal server error")
    /\ links = {}

----------------------------------------------------------------------------
(* Properties of the user handlers.                                        *)

\* C24: a password change with a password of at least 8 characters for an
\* id that no row of table users has is answered 404 "User not found with
\* this id", and no row of table users changes.
C24_UnknownUserIs404 ==
  \A p \in Procs :
    ( /\ req[p].kind = "putPassword" /\ pc[p] = "done"
      /\ Has(req[p].body, "id") /\ Has(req[p].body, "password")
      /\ length(req[p].body.password) >= 8
      /\ req[p].body.id \notin users )
      => /\ resp[p] = Send(404, "User not found with this id")
         /\ profile = SeedProfile

\* C25: a login whose email is not in a valid email format is answered 400
\* "Invalid email format" before any user query or password comparison.
C25_InvalidEmailIs400 ==
  \A p \in Procs :
    ( /\ req[p].kind = "login" /\ Ended(p)
      /\ Has(req[p].body, "email") /\ ~isEmail(req[p].body.email) )
      => /\ resp[p] = Send(400, "Invalid email format")
         /\ cnt[p].ops = 0

\* C27: no step of a request open to role "user" changes the role of a
\* stored User.
C27_RoleUnchanged ==
  [][ \A u \in users : u \in users' => profile'[u].role = profile[u].role ]_vars

\* The values bcrypt.hash returns.
BcryptHashes ==
  {bcryptHash(w) : w \in {"password1", "password2", "password3", "plaintext",
                           "short", ""}}

\* C28: in every reachable state the password of every stored User is a
\* value returned by bcrypt.hash.
C28_PasswordIsHash ==
  \A u \in users : profile[u].password \in BcryptHashes

----------------------------------------------------------------------------
(* The link handlers taken one request at a time.                          *)

\* No handler is suspended at an await.
Quiet == \A q \in Procs : pc[q] \in {"idle", "done", "failed"}

\* The id_links a body of PUT /links/:id carries, or none.
BodyIds == LinkIds \cup {UNDEFINED}

\* A request is accepted only when the one before it has been answered.
NextSerial ==
  \/ /\ Quiet
     /\ \E p \in Procs, o \in BodyLinks, u \in BodyUsers : linkControllerCreate(p, o, u)
  \/ \E p \in Procs : createExistsLink(p)
  \/ \E p \in Procs : createExistsShortLink(p)
  \/ \E p \in Procs : createInsert(p)
  \/ /\ Quiet
     /\ \E p \in Procs, param \in LinkIds, id \in BodyIds, o \in BodyLinks :
          linkControllerPutID(p, param, id, o)
  \/ \E p \in Procs : putFind(p)
  \/ \E p \in Procs : putUpdate(p)
  \/ /\ Quiet
     /\ \E p \in Procs, id \in LinkIds : linkControllerDeleteID(p, id)
  \/ \E p \in Procs : deleteFind(p)
  \/ \E p \in Procs : deleteDestroy(p)

SpecSerial == Init /\ [][NextSerial]_vars

\* No user owns two Links with the same original_link.
NoDuplicatePerUser ==
  \A l \in links, m \in links :
    (l.id_links # m.id_links /\ l.id_user = m.id_user)
      => l.original_link # m.original_link

\* C26: after any sequence of allocations, link updates and deletions taken
\* one at a time, no user owns two Links with the same original_link.
C26_NoDuplicateAfterSerial == Quiet => NoDuplicatePerUser

\* C30: a PUT /links/:id answered 200 leaves every Link but the one whose
\* id_links is the :id of the path as it was and gives that one the
\* original_link of the body; and when no Link has that id the query is
\* answered 404 with table links unchanged.
C30_PathIdIsTarget ==
  [][ \A p \in Procs :
        /\ (pc[p] = "putUpdate" /\ pc'[p] = "done" /\ resp'[p].status = 200)
             => /\ \A l \in links : l.id_links # req[p].param => l \in links'
                /\ \A m \in links' : m.id_links = req[p].param
                                         => m.original_link = req[p].original_link
        /\ (pc[p] = "putFind" /\ pc'[p] # "putFind"
                               /\ FindLinkById(req[p].param) = {})
             => /\ resp'[p].status = 404
                /\ pc'[p] = "done" ]_vars

----------------------------------------------------------------------------
(* The date-range routes behind the router.                                *)

\* linksVisitedSearchDateControllerGet: 400 unless both dates parse; else
\* the visits between them, which are some of the rows (the model keeps no
\* visit dates).
linksVisitedSearchDateControllerGet(p) ==
  /\ Runs(p, "linksVisitedSearchDateControllerGet")
  /\ IF ReqParam(p, ":initialDate") \notin ValidDates
        \/ ReqParam(p, ":finalDate") \notin ValidDates
       THEN /\ Reply(p, Send(400, "Invalid date format. Use YYYY-MM-DD."))
            /\ UNCHANGED cnt
       ELSE /\ cnt' = [cnt EXCEPT ![p].ops = @ + 1]
            /\ \E rows \in SUBSET visits :
                 Reply(p, [status |-> 200, ok |-> TRUE, links |-> rows])
  /\ UNCHANGED << store, accounts, routing, req, short_link, found, caught,
                  alive, served >>

\* The requests for a date range, and one of two segments whose first is
\* the word date.
DateRequests == {
  << "GET", Api(<< "links", "date", "2025-01-01", "2025-12-31" >>) >>,
  << "GET", Api(<< "links", "date", "soon", "2025-12-31" >>) >>,
  << "GET", Api(<< "linksvisited", "date", "2025-01-01", "2025-12-31" >>) >>,
  << "GET", Api(<< "linksvisited", "date", "2025-01-01", "soon" >>) >>,
  << "GET", Api(<< "links", "date", "2025-01-01" >>) >> }

NextDates ==
  \/ \E p \in Procs, r \in DateRequests, t \in RoutedTokens : dispatch(p, r[1], r[2], t)
  \/ \E p \in Procs : protectRouteFind(p)
  \/ \E p \in Procs : linksSearchDateControllerGet(p)
  \/ \E p \in Procs : linksVisitedSearchDateControllerGet(p)
  \/ \E p \in Procs : linksControllerGetParams(p)

SpecDates == InitGuard /\ [][NextDates]_vars

\* The request of the slot is a GET for a date range of links or of visits.
DateRange(p) ==
  /\ Routed(p) /\ req[p].method = "GET"
  /\ Len(req[p].path) = 6
  /\ req[p].path[3] \in {"links", "linksvisited"}
  /\ req[p].path[4] = "date"

\* The date-range handler of the resource the path names.
DateHandler(path) ==
  IF path[3] = "links" THEN "linksSearchDateControllerGet"
                       ELSE "linksVisitedSearchDateControllerGet"

\* C29: a GET for /links/date/:initialDate/:finalDate or
\* /linksvisited/date/:initialDate/:finalDate is routed to the date-range
\* handler of its resource with the guard of role "user" before it: no
\* other handler ever gets the request, and the date-range handler gets it
\* only through next() of the guard.
C29_DateRouteReached ==
  \A p \in Procs :
    DateRange(p)
      => /\ req[p].handler = DateHandler(req[p].path)
         /\ req[p].role = "user"
         /\ handler[p] \in {"", DateHandler(req[p].path)}
         /\ handler[p] # "" => guard[p] = "next" /\ ValidCredential(p)

\* Both date-range handlers answered 200 to a request with the credential
\* of a stored user.
C29_Witness ==
  \E p \in Procs, q \in Procs :
    /\ DateRange(p) /\ req[p].path[3] = "links"
    /\ handler[p] = "linksSearchDateControllerGet"
    /\ pc[p] = "done" /\ resp[p].status = 200
    /\ DateRange(q) /\ req[q].path[3] = "linksvisited"
    /\ handler[q] = "linksVisitedSearchDateControllerGet"
    /\ guard[q] = "next" /\ pc[q] = "done" /\ resp[q].status = 200

====
